---- MODULE Spec2Model ----
(***************************************************************************)
(* K15 NES Pad (src/k15_nespad.h): a pad object with four unsigned char    *)
(* fields, and three operations on it.  K15_NESInitPad stores the pins and *)
(* sets their directions, K15_NESPollButtons latches the controller and    *)
(* shifts 8 bits in over the data pin, K15_NESButtonPressed tests one bit  *)
(* of the stored mask.  The poll is modelled one pin operation per step,   *)
(* the Arduino calls pinMode, digitalWrite, digitalRead and                *)
(* delayMicroseconds by their effect on a pin table and by an entry in the *)
(* per-pad record of pin operations.                                       *)
(***************************************************************************)
EXTENDS Integers, Sequences, FiniteSets

VARIABLES pad, pinDir, pinLevel, pc, frame, trace, last, inited, sampled, entry

vars == <<pad, pinDir, pinLevel, pc, frame, trace, last, inited, sampled, entry>>

----------------------------------------------------------------------------
(* Types and program constants *)

\* The pad objects of the host, and the null pointer.
Pads == {1, 2}

\* The null pointer: "if (!p_Pad)".
NULL == 0

Refs == Pads \cup {NULL}

\* The pad of the header's example sketch ("K15_NESPad nesPad;").
nesPad == 1

\* unsigned char: the width of the four fields of K15_NESPad.
UCharRange == 256

\* The loop bound of K15_NESPollButtons: 8 buttons.
NumButtons == 8

\* The argument of delayMicroseconds.
SettleMicros == 6

\* enum K15_NESPadButton.
K15_NESPadButton_A == 1

K15_NESPadButton_B == 2

K15_NESPadButton_Select == 4

K15_NESPadButton_Start == 8

K15_NESPadButton_Up == 16

K15_NESPadButton_Down == 32

K15_NESPadButton_Left == 64

K15_NESPadButton_Right == 128

K15_NESPadButton ==
    { K15_NESPadButton_A, K15_NESPadButton_B, K15_NESPadButton_Select,
      K15_NESPadButton_Start, K15_NESPadButton_Up, K15_NESPadButton_Down,
      K15_NESPadButton_Left, K15_NESPadButton_Right }

\* Logic levels and pin directions of the platform.
Levels == {"LOW", "HIGH"}

\* The wiring of the header's example sketch: pulsePin 8, dataPin 12, latchPin 7.
ExampleWiring == [pulse |-> 8, data |-> 12, latch |-> 7]

\* A second, disjoint wiring for a second controller.
SecondWiring == [pulse |-> 2, data |-> 3, latch |-> 4]

\* A wiring whose pulse pin argument does not fit an unsigned char (264 = 256 + 8).
WideWiring == [pulse |-> 264, data |-> 12, latch |-> 7]

\* A miswiring: the data and latch arguments name the same pin.
SharedWiring == [pulse |-> 8, data |-> 7, latch |-> 7]

Wirings == {ExampleWiring, SecondWiring, WideWiring, SharedWiring}

\* The wirings a host with one controller passes to K15_NESInitPad.
HostWirings == {ExampleWiring, WideWiring, SharedWiring}

\* What a pad holds before K15_NESInitPad: zeroed static storage, or whatever
\* an automatic or heap object happens to hold.
ZeroPad == [buttonMask |-> 0, pulsePin |-> 0, dataPin |-> 0, latchPin |-> 0]

StalePad == [buttonMask |-> 165, pulsePin |-> 8, dataPin |-> 3, latchPin |-> 0]

Uninitialized == {ZeroPad, StalePad}

\* Every pin number a call can name.
PinIds ==
    UNION { {w.pulse, w.data, w.latch,
             w.pulse % UCharRange, w.data % UCharRange, w.latch % UCharRange}
            : w \in Wirings }
    \cup UNION { {u.pulsePin, u.dataPin, u.latchPin} : u \in Uninitialized }

----------------------------------------------------------------------------
(* Integer arithmetic of the C code *)

\* a & b on non-negative ints.
RECURSIVE BitAnd(_, _)
BitAnd(a, b) ==
    IF a = 0 \/ b = 0 THEN 0
    ELSE (a % 2) * (b % 2) + 2 * BitAnd(a \div 2, b \div 2)

\* a | b on non-negative ints.
RECURSIVE BitOr(_, _)
BitOr(a, b) ==
    IF a = 0 THEN b
    ELSE IF b = 0 THEN a
    ELSE (IF a % 2 = 1 \/ b % 2 = 1 THEN 1 ELSE 0) + 2 * BitOr(a \div 2, b \div 2)

\* 1 << n.
ShiftLeft1(n) == 2 ^ n

\* Conversion of an int to unsigned char on assignment to a field.
ToUChar(n) == n % UCharRange

----------------------------------------------------------------------------
(* The record of pin operations *)

PinModeOp(pin, dir) == [op |-> "pinMode", pin |-> pin, arg |-> dir]

WriteOp(pin, lvl) == [op |-> "digitalWrite", pin |-> pin, arg |-> lvl]

ReadOp(pin, lvl) == [op |-> "digitalRead", pin |-> pin, arg |-> lvl]

DelayOp(us) == [op |-> "delayMicroseconds", pin |-> -1, arg |-> us]

\* The locals of K15_NESPollButtons at entry; they are dead after the return.
NoFrame == [buttonMask |-> 0, buttonIndex |-> 0, dataPulse |-> "HIGH"]

\* The call that returned in the step just taken, if one did.
\* op and ref name the call, arg is its second argument (the wiring of an init,
\* the button of a query), ret its return value, prior the pad's buttonMask when
\* the call was entered.
NoReturn == [op |-> "none", ref |-> NULL, arg |-> 0, ret |-> 0, prior |-> 0]

Returned(op, ref, arg, ret, prior) ==
    [op |-> op, ref |-> ref, arg |-> arg, ret |-> ret, prior |-> prior]

\* The step just taken returned from op on pad p.
JustReturned(op, p) == last.op = op /\ last.ref = p

\* The levels read by the most recent completed poll of a pad, and whether no
\* K15_NESInitPad has run on the pad since; a poll that is running has read
\* none yet.
NeverPolled == [levels |-> <<>>, current |-> FALSE]

----------------------------------------------------------------------------
(* Initial states *)

InitCommon ==
    /\ pinDir = [n \in PinIds |-> "UNSET"]
    /\ pinLevel = [n \in PinIds |-> "LOW"]
    /\ pc = [p \in Pads |-> "idle"]
    /\ frame = [p \in Pads |-> NoFrame]
    /\ trace = [p \in Pads |-> <<>>]
    /\ last = NoReturn
    /\ inited = [p \in Pads |-> FALSE]
    /\ sampled = [p \in Pads |-> NeverPolled]
    /\ entry = [p \in Pads |-> pad[p].buttonMask]

\* The example sketch: its pad is a global, so zeroed.
Init ==
    /\ pad = [p \in Pads |-> ZeroPad]
    /\ InitCommon

\* Any host: its pads may be automatic or heap objects.
InitHost ==
    /\ \E u \in Uninitialized : pad = [p \in Pads |-> u]
    /\ InitCommon

----------------------------------------------------------------------------
(* K15_NESInitPad *)

\* pinMode(pin, mode) on the pin table.
PinMode(dir, pin, mode) == [dir EXCEPT ![pin] = mode]

\* The assignments without "p_Pad->buttonMask = 0".
InitFieldsKeepMask(old, w) ==
    [buttonMask |-> old.buttonMask,
     pulsePin |-> ToUChar(w.pulse),
     dataPin |-> ToUChar(w.data),
     latchPin |-> ToUChar(w.latch)]

\* The four assignments to the pad's fields.
InitFields(old, w) ==
    [buttonMask |-> 0,
     pulsePin |-> ToUChar(w.pulse),
     dataPin |-> ToUChar(w.data),
     latchPin |-> ToUChar(w.latch)]

\* The pinMode calls with the directions of the data and pulse pins exchanged.
InitPinModesSwapped(dir, w) ==
    PinMode(PinMode(PinMode(dir, w.data, "OUTPUT"), w.pulse, "INPUT"),
            w.latch, "OUTPUT")

\* The three pinMode calls, in the order of the code.
InitPinModes(dir, w) ==
    PinMode(PinMode(PinMode(dir, w.data, "INPUT"), w.pulse, "OUTPUT"),
            w.latch, "OUTPUT")

\* The null check placed after the pinMode calls of K15_NESInitPad, which need
\* no pad.
ReturnOnNullAfterPinModes(op, arg, ret) ==
    /\ last' = Returned(op, NULL, arg, ret, 0)
    /\ pinDir' = IF op = "init" THEN InitPinModes(pinDir, arg) ELSE pinDir
    /\ UNCHANGED <<pad, pinLevel, pc, frame, trace, inited, sampled, entry>>

\* "if (!p_Pad) return;" and, in K15_NESButtonPressed, "return 0;".
ReturnOnNull(op, arg, ret) ==
    /\ last' = Returned(op, NULL, arg, ret, 0)
    /\ UNCHANGED <<pad, pinDir, pinLevel, pc, frame, trace, inited, sampled, entry>>

K15_NESInitPad(p_Pad, w) ==
    IF p_Pad = NULL
    THEN ReturnOnNull("init", w, 0)
    ELSE /\ pc[p_Pad] = "idle"
         /\ pad' = [pad EXCEPT ![p_Pad] = InitFields(pad[p_Pad], w)]
         /\ pinDir' = InitPinModes(pinDir, w)
         /\ trace' = [trace EXCEPT ![p_Pad] =
                        << PinModeOp(w.data, "INPUT"),
                           PinModeOp(w.pulse, "OUTPUT"),
                           PinModeOp(w.latch, "OUTPUT") >>]
         /\ inited' = [inited EXCEPT ![p_Pad] = TRUE]
         /\ sampled' = [sampled EXCEPT ![p_Pad].current = FALSE]
         /\ entry' = [entry EXCEPT ![p_Pad] = pad'[p_Pad].buttonMask]
         /\ last' = Returned("init", p_Pad, w, 0, pad[p_Pad].buttonMask)
         /\ UNCHANGED <<pinLevel, pc, frame>>

----------------------------------------------------------------------------
(* K15_NESPollButtons, one step per statement *)

\* Entry: the null check and "int buttonMask = 0".
PollEnter(p_Pad) ==
    IF p_Pad = NULL
    THEN ReturnOnNull("poll", 0, 0)
    ELSE /\ pc[p_Pad] = "idle"
         /\ pc' = [pc EXCEPT ![p_Pad] = "latchHigh"]
         /\ frame' = [frame EXCEPT ![p_Pad] = NoFrame]
         /\ trace' = [trace EXCEPT ![p_Pad] = <<>>]
         /\ sampled' = [sampled EXCEPT ![p_Pad] = NeverPolled]
         /\ last' = NoReturn
         /\ UNCHANGED <<pad, pinDir, pinLevel, inited, entry>>

\* The statements in the reverse order inside the loop: the pulse first, then
\* the read.
AfterPulseFirst(at, buttonIndex) ==
    CASE at = "latchHigh" -> "latchLow"
      [] at = "latchLow" -> "delay"
      [] at = "delay" -> IF buttonIndex < NumButtons THEN "pulseHigh" ELSE "store"
      [] at = "pulseHigh" -> "pulseLow"
      [] at = "pulseLow" -> "read"
      [] at = "read" -> "test"
      [] at = "test" -> IF buttonIndex < NumButtons THEN "pulseHigh" ELSE "store"
      [] at = "store" -> "idle"

\* The loop running while "buttonIndex <= 8": one iteration more.
AfterNineIterations(at, buttonIndex) ==
    CASE at = "latchHigh" -> "latchLow"
      [] at = "latchLow" -> "delay"
      [] at = "delay" -> IF buttonIndex <= NumButtons THEN "read" ELSE "store"
      [] at = "read" -> "pulseHigh"
      [] at = "pulseHigh" -> "pulseLow"
      [] at = "pulseLow" -> "test"
      [] at = "test" -> IF buttonIndex <= NumButtons THEN "read" ELSE "store"
      [] at = "store" -> "idle"

\* The statement that follows statement at, buttonIndex being the loop counter
\* that the for loop's condition tests.
After(at, buttonIndex) ==
    CASE at = "latchHigh" -> "latchLow"
      [] at = "latchLow" -> "delay"
      [] at = "delay" -> IF buttonIndex < NumButtons THEN "read" ELSE "store"
      [] at = "read" -> "pulseHigh"
      [] at = "pulseHigh" -> "pulseLow"
      [] at = "pulseLow" -> "test"
      [] at = "test" -> IF buttonIndex < NumButtons THEN "read" ELSE "store"
      [] at = "store" -> "idle"

\* digitalWrite(pin, lvl) by the poll of p_Pad, continuing at next.
DigitalWrite(p_Pad, pin, lvl, next) ==
    /\ pinLevel' = [pinLevel EXCEPT ![pin] = lvl]
    /\ trace' = [trace EXCEPT ![p_Pad] = Append(@, WriteOp(pin, lvl))]
    /\ pc' = [pc EXCEPT ![p_Pad] = next]
    /\ last' = NoReturn
    /\ UNCHANGED <<pad, pinDir, frame, inited, sampled, entry>>

PollLatchHigh(p_Pad) ==
    /\ pc[p_Pad] = "latchHigh"
    /\ DigitalWrite(p_Pad, pad[p_Pad].latchPin, "HIGH", After("latchHigh", 0))

\* The second latch write naming the wrong field: dataPin for latchPin.
PollLatchLowOnDataPin(p_Pad) ==
    /\ pc[p_Pad] = "latchLow"
    /\ DigitalWrite(p_Pad, pad[p_Pad].dataPin, "LOW", After("latchLow", 0))

PollLatchLow(p_Pad) ==
    /\ pc[p_Pad] = "latchLow"
    /\ DigitalWrite(p_Pad, pad[p_Pad].latchPin, "LOW", After("latchLow", 0))

\* delayMicroseconds(6), then the for loop's "buttonIndex = 0; buttonIndex < 8".
PollDelay(p_Pad) ==
    /\ pc[p_Pad] = "delay"
    /\ trace' = [trace EXCEPT ![p_Pad] = Append(@, DelayOp(SettleMicros))]
    /\ frame' = [frame EXCEPT ![p_Pad].buttonIndex = 0]
    /\ pc' = [pc EXCEPT ![p_Pad] = After("delay", 0)]
    /\ last' = NoReturn
    /\ UNCHANGED <<pad, pinDir, pinLevel, inited, sampled, entry>>

\* The read preceded by "pinMode(p_Pad->dataPin, INPUT_PULLUP)".
PollReadPullup(p_Pad, lvl) ==
    /\ pc[p_Pad] = "read"
    /\ pinDir' = PinMode(pinDir, pad[p_Pad].dataPin, "INPUT_PULLUP")
    /\ frame' = [frame EXCEPT ![p_Pad].dataPulse = lvl]
    /\ trace' = [trace EXCEPT ![p_Pad] = Append(@, ReadOp(pad[p_Pad].dataPin, lvl))]
    /\ pc' = [pc EXCEPT ![p_Pad] = After("read", frame[p_Pad].buttonIndex)]
    /\ last' = NoReturn
    /\ UNCHANGED <<pad, pinLevel, inited, sampled, entry>>

\* int dataPulse = digitalRead(p_Pad->dataPin); the controller drives the line.
PollRead(p_Pad, lvl) ==
    /\ pc[p_Pad] = "read"
    /\ frame' = [frame EXCEPT ![p_Pad].dataPulse = lvl]
    /\ trace' = [trace EXCEPT ![p_Pad] = Append(@, ReadOp(pad[p_Pad].dataPin, lvl))]
    /\ pc' = [pc EXCEPT ![p_Pad] = After("read", frame[p_Pad].buttonIndex)]
    /\ last' = NoReturn
    /\ UNCHANGED <<pad, pinDir, pinLevel, inited, sampled, entry>>

\* The pulse held for a minimum width: a wait after the HIGH write.
PollPulseHighHeld(p_Pad) ==
    /\ pc[p_Pad] = "pulseHigh"
    /\ pinLevel' = [pinLevel EXCEPT ![pad[p_Pad].pulsePin] = "HIGH"]
    /\ trace' = [trace EXCEPT ![p_Pad] =
                    Append(Append(@, WriteOp(pad[p_Pad].pulsePin, "HIGH")),
                           DelayOp(SettleMicros))]
    /\ pc' = [pc EXCEPT ![p_Pad] = After("pulseHigh", frame[p_Pad].buttonIndex)]
    /\ last' = NoReturn
    /\ UNCHANGED <<pad, pinDir, frame, inited, sampled, entry>>

PollPulseHigh(p_Pad) ==
    /\ pc[p_Pad] = "pulseHigh"
    /\ DigitalWrite(p_Pad, pad[p_Pad].pulsePin, "HIGH",
                    After("pulseHigh", frame[p_Pad].buttonIndex))

\* The second write of the pulse repeating the first: HIGH in place of LOW.
PollPulseLowWritesHigh(p_Pad) ==
    /\ pc[p_Pad] = "pulseLow"
    /\ DigitalWrite(p_Pad, pad[p_Pad].pulsePin, "HIGH",
                    After("pulseLow", frame[p_Pad].buttonIndex))

PollPulseLow(p_Pad) ==
    /\ pc[p_Pad] = "pulseLow"
    /\ DigitalWrite(p_Pad, pad[p_Pad].pulsePin, "LOW",
                    After("pulseLow", frame[p_Pad].buttonIndex))

\* Accumulate with the polarity reversed: a HIGH level taken as pressed.
AccumulateActiveHigh(f) ==
    IF f.dataPulse = "HIGH"
    THEN BitOr(f.buttonMask, ShiftLeft1(f.buttonIndex))
    ELSE f.buttonMask

\* The accumulator after "if (dataPulse == LOW) buttonMask |= (1 << buttonIndex)".
Accumulate(f) ==
    IF f.dataPulse = "LOW"
    THEN BitOr(f.buttonMask, ShiftLeft1(f.buttonIndex))
    ELSE f.buttonMask

\* The if statement accumulating in the pad's field as well as in the local:
\* "p_Pad->buttonMask |= (1 << buttonIndex)".
PollTestInPlace(p_Pad) ==
    /\ pc[p_Pad] = "test"
    /\ frame' = [frame EXCEPT ![p_Pad].buttonMask = Accumulate(frame[p_Pad]),
                              ![p_Pad].buttonIndex = @ + 1]
    /\ pad' = [pad EXCEPT ![p_Pad].buttonMask =
                  IF frame[p_Pad].dataPulse = "LOW"
                  THEN ToUChar(BitOr(@, ShiftLeft1(frame[p_Pad].buttonIndex)))
                  ELSE @]
    /\ pc' = [pc EXCEPT ![p_Pad] = After("test", frame[p_Pad].buttonIndex + 1)]
    /\ last' = NoReturn
    /\ UNCHANGED <<pinDir, pinLevel, trace, inited, sampled, entry>>

\* The if statement testing the line again in place of the saved dataPulse:
\* "if (digitalRead(p_Pad->dataPin) == LOW)", which after the pulse shows the
\* next bit.
PollTestRereads(p_Pad) ==
    /\ pc[p_Pad] = "test"
    /\ \E lvl \in Levels :
          /\ frame' = [frame EXCEPT
                          ![p_Pad].buttonMask =
                              Accumulate([frame[p_Pad] EXCEPT !.dataPulse = lvl]),
                          ![p_Pad].buttonIndex = @ + 1]
          /\ trace' = [trace EXCEPT ![p_Pad] =
                          Append(@, ReadOp(pad[p_Pad].dataPin, lvl))]
    /\ pc' = [pc EXCEPT ![p_Pad] = After("test", frame[p_Pad].buttonIndex + 1)]
    /\ last' = NoReturn
    /\ UNCHANGED <<pad, pinDir, pinLevel, inited, sampled, entry>>

\* The if statement, then "++buttonIndex; buttonIndex < 8".
PollTest(p_Pad) ==
    /\ pc[p_Pad] = "test"
    /\ frame' = [frame EXCEPT ![p_Pad].buttonMask = Accumulate(frame[p_Pad]),
                              ![p_Pad].buttonIndex = @ + 1]
    /\ pc' = [pc EXCEPT ![p_Pad] = After("test", frame[p_Pad].buttonIndex + 1)]
    /\ last' = NoReturn
    /\ UNCHANGED <<pad, pinDir, pinLevel, trace, inited, sampled, entry>>

\* The levels read by the poll recorded in t, in order.
ReadLevels(t) ==
    LET reads == SelectSeq(t, LAMBDA e : e.op = "digitalRead")
    IN  [i \in 1..Len(reads) |-> reads[i].arg]

\* The store into one mask shared by every pad (a static variable in place of
\* the field).
PollStoreShared(p_Pad) ==
    /\ pc[p_Pad] = "store"
    /\ pad' = [q \in Pads |->
                 [pad[q] EXCEPT !.buttonMask = ToUChar(frame[p_Pad].buttonMask)]]
    /\ pc' = [pc EXCEPT ![p_Pad] = After("store", frame[p_Pad].buttonIndex)]
    /\ sampled' = [sampled EXCEPT ![p_Pad] =
                      [levels |-> ReadLevels(trace[p_Pad]), current |-> TRUE]]
    /\ entry' = [entry EXCEPT ![p_Pad] = pad'[p_Pad].buttonMask]
    /\ frame' = [frame EXCEPT ![p_Pad] = NoFrame]
    /\ last' = Returned("poll", p_Pad, 0, 0, pad[p_Pad].buttonMask)
    /\ UNCHANGED <<pinDir, pinLevel, trace, inited>>

\* p_Pad->buttonMask = buttonMask; and the return.
PollStore(p_Pad) ==
    /\ pc[p_Pad] = "store"
    /\ pad' = [pad EXCEPT ![p_Pad].buttonMask = ToUChar(frame[p_Pad].buttonMask)]
    /\ pc' = [pc EXCEPT ![p_Pad] = After("store", frame[p_Pad].buttonIndex)]
    /\ sampled' = [sampled EXCEPT ![p_Pad] =
                      [levels |-> ReadLevels(trace[p_Pad]), current |-> TRUE]]
    /\ entry' = [entry EXCEPT ![p_Pad] = pad'[p_Pad].buttonMask]
    /\ frame' = [frame EXCEPT ![p_Pad] = NoFrame]
    /\ last' = Returned("poll", p_Pad, 0, 0, pad[p_Pad].buttonMask)
    /\ UNCHANGED <<pinDir, pinLevel, trace, inited>>

----------------------------------------------------------------------------
(* K15_NESButtonPressed *)

\* The test without the button: "p_Pad->buttonMask > 0".
PressedValueAnyButton(mask, p_Button) == IF mask > 0 THEN 1 ELSE 0

\* The test for all the bits of the argument: "(p_Pad->buttonMask & p_Button)
\* == p_Button".
PressedValueAllBits(mask, p_Button) ==
    IF BitAnd(mask, p_Button) = p_Button THEN 1 ELSE 0

\* (p_Pad->buttonMask & p_Button) > 0
PressedValue(mask, p_Button) == IF BitAnd(mask, p_Button) > 0 THEN 1 ELSE 0

\* A query that consumes what it reports: it clears the button's bit.
K15_NESButtonPressedClearing(p_Pad, p_Button) ==
    IF p_Pad = NULL
    THEN ReturnOnNull("pressed", p_Button, 0)
    ELSE /\ last' = Returned("pressed", p_Pad, p_Button,
                             PressedValue(pad[p_Pad].buttonMask, p_Button),
                             pad[p_Pad].buttonMask)
         /\ pad' = [pad EXCEPT ![p_Pad].buttonMask =
                       @ - BitAnd(@, p_Button)]
         /\ entry' = [entry EXCEPT ![p_Pad] = pad'[p_Pad].buttonMask]
         /\ UNCHANGED <<pinDir, pinLevel, pc, frame, trace, inited, sampled>>

K15_NESButtonPressed(p_Pad, p_Button) ==
    IF p_Pad = NULL
    THEN ReturnOnNull("pressed", p_Button, 0)
    ELSE /\ last' = Returned("pressed", p_Pad, p_Button,
                             PressedValue(pad[p_Pad].buttonMask, p_Button),
                             pad[p_Pad].buttonMask)
         /\ UNCHANGED <<pad, pinDir, pinLevel, pc, frame, trace, inited, sampled, entry>>

----------------------------------------------------------------------------
(* The example sketch: setup() initializes nesPad once, loop() polls and queries *)
(* it; one call runs at a time, and the data line may show any level at each    *)
(* read.                                                                        *)

Setup == ~inited[nesPad] /\ K15_NESInitPad(nesPad, ExampleWiring)

LoopPoll == inited[nesPad] /\ PollEnter(nesPad)

PollStep ==
    \/ PollLatchHigh(nesPad)
    \/ PollLatchLow(nesPad)
    \/ PollDelay(nesPad)
    \/ \E lvl \in Levels : PollRead(nesPad, lvl)
    \/ PollPulseHigh(nesPad)
    \/ PollPulseLow(nesPad)
    \/ PollTest(nesPad)
    \/ PollStore(nesPad)

LoopQuery ==
    /\ inited[nesPad]
    /\ pc[nesPad] = "idle"
    /\ \E b \in K15_NESPadButton : K15_NESButtonPressed(nesPad, b)

NullCall ==
    /\ pc[nesPad] = "idle"
    /\ \/ \E w \in HostWirings : K15_NESInitPad(NULL, w)
       \/ PollEnter(NULL)
       \/ \E b \in K15_NESPadButton : K15_NESButtonPressed(NULL, b)

Next == Setup \/ LoopPoll \/ PollStep \/ LoopQuery \/ NullCall

Spec == Init /\ [][Next]_vars

----------------------------------------------------------------------------
(* A single-threaded host that makes any call on its pad, initialized or not, *)
(* with any wiring; one call runs at a time.  The data line changes level at  *)
(* most MaxLineChanges times within one poll.                                 *)

MaxLineChanges == 1

\* The number of places where two consecutive levels differ.
LineChanges(levels) ==
    Cardinality({ i \in 1..(Len(levels) - 1) : levels[i] # levels[i + 1] })

LineAllows(p, lvl) ==
    LineChanges(Append(ReadLevels(trace[p]), lvl)) <= MaxLineChanges

HostRefs == {nesPad, NULL}

HostInit ==
    /\ pc[nesPad] = "idle"
    /\ \E r \in HostRefs, w \in HostWirings : K15_NESInitPad(r, w)

HostPoll == pc[nesPad] = "idle" /\ \E r \in HostRefs : PollEnter(r)

HostQuery ==
    /\ pc[nesPad] = "idle"
    /\ \E r \in HostRefs, b \in K15_NESPadButton : K15_NESButtonPressed(r, b)

HostStep ==
    \/ PollLatchHigh(nesPad)
    \/ PollLatchLow(nesPad)
    \/ PollDelay(nesPad)
    \/ \E lvl \in Levels : LineAllows(nesPad, lvl) /\ PollRead(nesPad, lvl)
    \/ PollPulseHigh(nesPad)
    \/ PollPulseLow(nesPad)
    \/ PollTest(nesPad)
    \/ PollStore(nesPad)

NextHost == HostInit \/ HostPoll \/ HostQuery \/ HostStep

SpecHost == InitHost /\ [][NextHost]_vars

----------------------------------------------------------------------------
(* A multi-threaded host with two controllers on disjoint pins: one thread *)
(* per pad initializes it and polls it, and the pin operations of the two  *)
(* polls interleave in any order.  Each data line holds one level for the  *)
(* length of a poll (all buttons held, or none: a stuck or disconnected    *)
(* line).                                                                  *)

ThreadWiring(p) == IF p = nesPad THEN ExampleWiring ELSE SecondWiring

StuckLine(p, lvl) ==
    \A i \in 1..Len(ReadLevels(trace[p])) : ReadLevels(trace[p])[i] = lvl

ThreadInit == \E p \in Pads : K15_NESInitPad(p, ThreadWiring(p))

ThreadPoll == \E p \in Pads : inited[p] /\ PollEnter(p)

ThreadStep ==
    \E p \in Pads :
        \/ PollLatchHigh(p)
        \/ PollLatchLow(p)
        \/ PollDelay(p)
        \/ \E lvl \in Levels : StuckLine(p, lvl) /\ PollRead(p, lvl)
        \/ PollPulseHigh(p)
        \/ PollPulseLow(p)
        \/ PollTest(p)
        \/ PollStore(p)

NextThreads == ThreadInit \/ ThreadPoll \/ ThreadStep

SpecThreads == InitHost /\ [][NextThreads]_vars

----------------------------------------------------------------------------
(* The example sketch with an interrupt handler that queries nesPad: the    *)
(* handler may run between any two steps of a poll.  The data line changes  *)
(* level at most MaxLineChanges times within one poll.                      *)

Restart == K15_NESInitPad(nesPad, ExampleWiring)

HandlerQuery == \E b \in K15_NESPadButton : K15_NESButtonPressed(nesPad, b)

NextInterrupt == Restart \/ LoopPoll \/ HostStep \/ HandlerQuery

SpecInterrupt == Init /\ [][NextInterrupt]_vars

----------------------------------------------------------------------------
(* The loop() of the example sketch alone: poll after poll, the data line    *)
(* showing any level at each read.  A call that has started keeps running:   *)
(* the processor executes the next statement of the poll.                    *)

NextLoop == Setup \/ LoopPoll \/ PollStep

SpecLoop == Init /\ [][NextLoop]_vars /\ WF_vars(PollStep)

----------------------------------------------------------------------------
(* A host that reads its controller in one shot: it initializes the pad,     *)
(* polls it once, the data line showing any level at each read, and makes    *)
(* one query, with any value of the enum's underlying type that fits the     *)
(* mask: no flag, one flag, several flags.                                   *)

ButtonArgs == 0..(UCharRange - 1)

OneShotInit == ~JustReturned("init", nesPad) /\ Restart

OneShotPoll == JustReturned("init", nesPad) /\ PollEnter(nesPad)

QueryAnyButton ==
    /\ JustReturned("poll", nesPad)
    /\ \E b \in ButtonArgs : K15_NESButtonPressed(nesPad, b)

NextQuery == OneShotInit \/ OneShotPoll \/ PollStep \/ QueryAnyButton

SpecQuery == Init /\ [][NextQuery]_vars

----------------------------------------------------------------------------
(* Vocabulary of the properties *)

\* The integer whose bit i is 1 exactly when levels[i + 1] is LOW.
RECURSIVE MaskOf(_)
MaskOf(levels) ==
    IF levels = <<>> THEN 0
    ELSE (IF Head(levels) = "LOW" THEN 1 ELSE 0) + 2 * MaskOf(Tail(levels))

\* Whether bit i of mask is 1.
BitSetIn(mask, i) == (mask \div (2 ^ i)) % 2 = 1

\* The bit position of a single-bit button flag: 0 = A, ..., 7 = Right.
BitIndex(b) == CHOOSE i \in 0..(NumButtons - 1) : 2 ^ i = b

\* The positions of t whose entry satisfies Test, in order.
Positions(t, Test(_)) ==
    LET RECURSIVE from(_)
        from(i) == IF i > Len(t) THEN <<>>
                   ELSE IF Test(t[i]) THEN <<i>> \o from(i + 1)
                   ELSE from(i + 1)
    IN  from(1)

AllHigh == [i \in 1..NumButtons |-> "HIGH"]

AllLow == [i \in 1..NumButtons |-> "LOW"]

----------------------------------------------------------------------------
(* C1 *)

\* C1: when a poll of an initialized pad returns it has read the data pin 8
\* times, and buttonMask is the integer whose bit i is 1 exactly when the i-th
\* read returned LOW, whatever buttonMask held before the call.
PollStoresMaskOfReads ==
    \A p \in Pads :
        (inited[p] /\ JustReturned("poll", p)) =>
            /\ Len(ReadLevels(trace[p])) = NumButtons
            /\ pad[p].buttonMask = MaskOf(ReadLevels(trace[p]))
            /\ (ReadLevels(trace[p]) = AllHigh => pad[p].buttonMask = 0)
            /\ (ReadLevels(trace[p]) = AllLow => pad[p].buttonMask = 255)

\* A poll that read LOW at the odd positions 1, 3, 5, 7 only and found 0x55 in
\* buttonMask has returned, leaving 0xAA.
PollOverwritesPriorMask ==
    /\ JustReturned("poll", nesPad)
    /\ inited[nesPad]
    /\ last.prior = 85
    /\ ReadLevels(trace[nesPad]) =
           [i \in 1..NumButtons |-> IF i % 2 = 0 THEN "LOW" ELSE "HIGH"]
    /\ pad[nesPad].buttonMask = 170

----------------------------------------------------------------------------
(* C2 *)

IsWriteTo(e, pin) == e.op = "digitalWrite" /\ e.pin = pin

IsRead(e) == e.op = "digitalRead"

DistinctPins(p) ==
    /\ pad[p].pulsePin # pad[p].dataPin
    /\ pad[p].pulsePin # pad[p].latchPin
    /\ pad[p].dataPin # pad[p].latchPin

\* C2: the pin operations of a completed poll of an initialized pad with
\* distinct pins hold exactly two writes to latchPin, HIGH then LOW, both before
\* every write to pulsePin; exactly 8 HIGH-then-LOW pairs of writes to pulsePin;
\* and exactly 8 reads, all of dataPin, the k-th after the latch writes and after
\* pulse k-1 and before pulse k.
PollLatchesThenReadsBeforeEachPulse ==
    \A p \in Pads :
        (inited[p] /\ DistinctPins(p) /\ JustReturned("poll", p)) =>
            LET t == trace[p]
                latch == Positions(t, LAMBDA e : IsWriteTo(e, pad[p].latchPin))
                pulse == Positions(t, LAMBDA e : IsWriteTo(e, pad[p].pulsePin))
                reads == Positions(t, IsRead)
            IN  /\ Len(latch) = 2
                /\ t[latch[1]].arg = "HIGH" /\ t[latch[2]].arg = "LOW"
                /\ Len(pulse) = 2 * NumButtons
                /\ Len(reads) = NumButtons
                /\ \A k \in 1..NumButtons :
                       /\ t[pulse[2 * k - 1]].arg = "HIGH"
                       /\ t[pulse[2 * k]].arg = "LOW"
                       /\ pulse[2 * k] = pulse[2 * k - 1] + 1
                       /\ latch[2] < pulse[2 * k - 1]
                       /\ t[reads[k]].pin = pad[p].dataPin
                       /\ latch[2] < reads[k]
                       /\ reads[k] < pulse[2 * k - 1]
                       /\ (k > 1 => pulse[2 * (k - 1)] < reads[k])

\* A poll of the pad of the example sketch has returned after 27 pin operations,
\* having read LOW, HIGH, LOW, ...
PollTraceComplete ==
    /\ inited[nesPad]
    /\ DistinctPins(nesPad)
    /\ JustReturned("poll", nesPad)
    /\ Len(trace[nesPad]) = 27
    /\ ReadLevels(trace[nesPad]) =
           [i \in 1..NumButtons |-> IF i % 2 = 1 THEN "LOW" ELSE "HIGH"]

----------------------------------------------------------------------------
(* C3 *)

\* The named buttons in the order of their bit positions.
ButtonOrder ==
    << K15_NESPadButton_A, K15_NESPadButton_B, K15_NESPadButton_Select,
       K15_NESPadButton_Start, K15_NESPadButton_Up, K15_NESPadButton_Down,
       K15_NESPadButton_Left, K15_NESPadButton_Right >>

\* The most recent completed poll of p read LOW at position i (from 0).
LastPollSet(p, i) ==
    /\ Len(sampled[p].levels) = NumButtons
    /\ sampled[p].levels[i + 1] = "LOW"

\* C3 as stated: after any sequence of initialize and poll calls, the query of
\* the button at position i returns true exactly when the most recent completed
\* poll set bit i.
QueryTellsLastPoll ==
    \A p \in Pads : \A i \in 0..(NumButtons - 1) :
        (inited[p] /\ pc[p] = "idle" /\ JustReturned("pressed", p)
           /\ last.arg = ButtonOrder[i + 1])
        => (last.ret = 1 <=> LastPollSet(p, i))

\* C3, amended: the query of the button at position i returns 1 exactly when a
\* poll has completed since the most recent K15_NESInitPad and the most recent
\* one read LOW at position i, and returns 0 otherwise.
QueryTellsLastPollSinceInit ==
    \A p \in Pads : \A i \in 0..(NumButtons - 1) :
        (inited[p] /\ pc[p] = "idle" /\ JustReturned("pressed", p)
           /\ last.arg = ButtonOrder[i + 1])
        => /\ last.ret \in {0, 1}
           /\ last.ret = 1 <=> (sampled[p].current /\ LastPollSet(p, i))

\* The last poll read HIGH four times, then LOW four times (mask 0xF0), and the
\* query of Up returned 1.
QueryFindsUpAmongOthers ==
    /\ inited[nesPad]
    /\ pc[nesPad] = "idle"
    /\ JustReturned("pressed", nesPad)
    /\ last.arg = K15_NESPadButton_Up
    /\ last.ret = 1
    /\ sampled[nesPad].current
    /\ sampled[nesPad].levels =
           [i \in 1..NumButtons |-> IF i <= 4 THEN "HIGH" ELSE "LOW"]

----------------------------------------------------------------------------
(* C4 *)

\* C4: while no poll has completed on a pad since its most recent
\* K15_NESInitPad, its buttonMask is 0 and a query returns 0 for every button,
\* also when polls completed before that K15_NESInitPad.
NoButtonPressedBeforeFirstPoll ==
    \A p \in Pads :
        (inited[p] /\ pc[p] = "idle" /\ ~sampled[p].current) =>
            /\ pad[p].buttonMask = 0
            /\ (JustReturned("pressed", p) => last.ret = 0)

\* A pad was polled with every button held, initialized again, and queried.
QueryAfterReinitialization ==
    /\ inited[nesPad]
    /\ pc[nesPad] = "idle"
    /\ ~sampled[nesPad].current
    /\ sampled[nesPad].levels = AllLow
    /\ JustReturned("pressed", nesPad)
    /\ last.ret = 0

----------------------------------------------------------------------------
(* C5 *)

\* C5: a step in which one of the three operations returns from a call with a
\* null pad changes no pad, no pin direction, no pin level, no record of pin
\* operations and starts no poll; K15_NESButtonPressed returns 0.
NullCallsDoNothing ==
    [][(last'.op # "none" /\ last'.ref = NULL) =>
          /\ UNCHANGED <<pad, pinDir, pinLevel, pc, frame, trace>>
          /\ last'.ret = 0]_vars

\* K15_NESInitPad has returned from a call with a null pad while the host's pad
\* holds the mask of a poll that found every button held.
NullInitReturned ==
    /\ JustReturned("init", NULL)
    /\ inited[nesPad]
    /\ pad[nesPad].buttonMask = 255

----------------------------------------------------------------------------
(* C6 *)

\* The number of entries of t whose op is op.
CountOps(t, op) == Cardinality({ i \in 1..Len(t) : t[i].op = op })

\* C6 as stated: on a pad on which K15_NESInitPad was never called, no poll
\* runs or has left a pin operation, the fields are as they were found, and a
\* query returns 0.
UninitializedPadIsInert ==
    \A p \in Pads :
        ~inited[p] =>
            /\ pc[p] = "idle"
            /\ trace[p] = <<>>
            /\ pad[p] \in Uninitialized
            /\ (JustReturned("pressed", p) => last.ret = 0)

\* C6, amended: on a pad on which K15_NESInitPad was never called, a poll runs
\* the whole protocol on the pins that the fields happen to name (18 writes, to
\* latchPin and pulsePin only, one wait, 8 reads of dataPin) and stores the mask
\* of the levels read; a query returns 1 exactly when the button's bit is set in
\* the buttonMask the pad holds, which until the first poll is what was found
\* there.
UninitializedPadIsPolledAsFound ==
    \A p \in Pads :
        ~inited[p] =>
            /\ JustReturned("poll", p) =>
                  /\ CountOps(trace[p], "digitalWrite") = 2 + 2 * NumButtons
                  /\ CountOps(trace[p], "digitalRead") = NumButtons
                  /\ CountOps(trace[p], "delayMicroseconds") = 1
                  /\ \A i \in 1..Len(trace[p]) :
                         /\ trace[p][i].op = "digitalWrite" =>
                               trace[p][i].pin \in {pad[p].latchPin, pad[p].pulsePin}
                         /\ trace[p][i].op = "digitalRead" =>
                               trace[p][i].pin = pad[p].dataPin
                  /\ pad[p].buttonMask = MaskOf(ReadLevels(trace[p]))
            /\ \A i \in 0..(NumButtons - 1) :
                  (JustReturned("pressed", p) /\ last.arg = ButtonOrder[i + 1]) =>
                      (last.ret = 1 <=> BitSetIn(pad[p].buttonMask, i))
            /\ (pc[p] = "idle" /\ trace[p] = <<>>) => pad[p] \in Uninitialized

\* A poll of a pad that was never initialized has returned, having replaced the
\* 0xA5 found in buttonMask by 0xFF.
UninitializedPadWasPolled ==
    /\ ~inited[nesPad]
    /\ JustReturned("poll", nesPad)
    /\ last.prior = 165
    /\ pad[nesPad].buttonMask = 255

----------------------------------------------------------------------------
(* C7 *)

PinsOf(p) == {pad[p].pulsePin, pad[p].dataPin, pad[p].latchPin}

\* C7: with two pads initialized on disjoint pins whose polls interleave step by
\* step, each pad's buttonMask is the one its own last call left (no step of
\* the other pad's poll changes it), a pad whose poll has completed holds the
\* mask of the levels read on its own data pin, and the pin operations of a
\* pad's poll are writes to its own latchPin and pulsePin and reads of its own
\* dataPin.
PadsDoNotInterfere ==
    \A p \in Pads : \A q \in Pads \ {p} :
        (inited[p] /\ inited[q] /\ PinsOf(p) \cap PinsOf(q) = {}) =>
            /\ pad[p].buttonMask = entry[p]
            /\ (pc[p] = "idle" /\ sampled[p].current) =>
                   pad[p].buttonMask = MaskOf(sampled[p].levels)
            /\ \A i \in 1..Len(trace[p]) :
                   /\ trace[p][i].op = "digitalWrite" =>
                         /\ trace[p][i].pin \in {pad[p].latchPin, pad[p].pulsePin}
                         /\ trace[p][i].pin \notin PinsOf(q)
                   /\ trace[p][i].op = "digitalRead" =>
                         /\ trace[p][i].pin = pad[p].dataPin
                         /\ trace[p][i].pin \notin PinsOf(q)

\* The poll of the first pad has returned with every button held (0xFF) while
\* the poll of the second pad, which reads no button held, is at its fourth
\* pulse and the second pad still holds the 0xFF of its previous poll.
PollsOverlapWithDifferentInput ==
    /\ inited[1] /\ inited[2]
    /\ PinsOf(1) \cap PinsOf(2) = {}
    /\ JustReturned("poll", 1)
    /\ pad[1].buttonMask = 255
    /\ pc[2] = "pulseLow"
    /\ frame[2].buttonIndex = 3
    /\ frame[2].buttonMask = 0
    /\ frame[2].dataPulse = "HIGH"
    /\ pad[2].buttonMask = 255

----------------------------------------------------------------------------
(* C8 *)

\* C8: at every step of a poll (after the latch writes, the wait, and each
\* read, pulse and test) the pad's buttonMask is still the value it had when the
\* poll was entered; once the poll has returned it is the complete mask of the 8
\* levels read; and a query that runs at any point returns the button's bit of
\* that old or that new mask.
MaskIsNeverPartial ==
    \A p \in Pads :
        /\ pc[p] # "idle" => pad[p].buttonMask = entry[p]
        /\ (pc[p] = "idle" /\ sampled[p].current) =>
               /\ Len(sampled[p].levels) = NumButtons
               /\ pad[p].buttonMask = MaskOf(sampled[p].levels)
               /\ entry[p] = MaskOf(sampled[p].levels)
        /\ \A i \in 0..(NumButtons - 1) :
               (JustReturned("pressed", p) /\ last.arg = ButtonOrder[i + 1]) =>
                   (last.ret = 1 <=> BitSetIn(entry[p], i))

\* A query of A ran after the fifth iteration of a poll that has read LOW five
\* times, and returned 0: the pad still holds the 0xF0 of the poll before.
QueryDuringPollSeesOldMask ==
    /\ JustReturned("pressed", nesPad)
    /\ last.arg = K15_NESPadButton_A
    /\ last.ret = 0
    /\ pc[nesPad] = "read"
    /\ frame[nesPad].buttonIndex = 5
    /\ frame[nesPad].buttonMask = 31
    /\ pad[nesPad].buttonMask = 240

----------------------------------------------------------------------------
(* C9 *)

DistinctArguments(w) == w.pulse # w.data /\ w.pulse # w.latch /\ w.data # w.latch

FitsUChar(w) == \A n \in {w.pulse, w.data, w.latch} : n < UCharRange

\* C9: a step in which K15_NESInitPad returns from a call on a pad with three
\* distinct pin arguments leaves the data pin an INPUT and the pulse and latch
\* pins OUTPUTs (the pins of the arguments, which are the pins of the pad's
\* fields when the arguments fit an unsigned char), sets buttonMask to 0,
\* performs the three pinMode calls and no write, read or wait, and changes no
\* pin level.
InitConfiguresPinsOnly ==
    [][(last'.op = "init" /\ last'.ref \in Pads /\ DistinctArguments(last'.arg)) =>
          /\ pinDir'[last'.arg.data] = "INPUT"
          /\ pinDir'[last'.arg.pulse] = "OUTPUT"
          /\ pinDir'[last'.arg.latch] = "OUTPUT"
          /\ pad'[last'.ref].buttonMask = 0
          /\ FitsUChar(last'.arg) =>
                /\ pinDir'[pad'[last'.ref].dataPin] = "INPUT"
                /\ pinDir'[pad'[last'.ref].pulsePin] = "OUTPUT"
                /\ pinDir'[pad'[last'.ref].latchPin] = "OUTPUT"
          /\ Len(trace'[last'.ref]) = 3
          /\ CountOps(trace'[last'.ref], "pinMode") = 3
          /\ pinLevel' = pinLevel]_vars

\* K15_NESInitPad has returned from a call with the wiring of the example
\* sketch on a pad that held 0xFF from a poll.
InitReturnedAfterPoll ==
    /\ JustReturned("init", nesPad)
    /\ last.arg = ExampleWiring
    /\ last.prior = 255
    /\ pad[nesPad].buttonMask = 0
    /\ pinDir[12] = "INPUT"

----------------------------------------------------------------------------
(* C10 *)

\* C10: a step in which K15_NESButtonPressed returns changes no pad field, no
\* pin direction, no pin level, no record of pin operations and no poll; and
\* when the step before it was a query of the same pad and button, it returns
\* the same value.
QueryIsPureRead ==
    [][last'.op = "pressed" =>
          /\ UNCHANGED <<pad, pinDir, pinLevel, pc, frame, trace>>
          /\ (last.op = "pressed" /\ last.ref = last'.ref /\ last.arg = last'.arg)
                => last'.ret = last.ret]_vars

\* A query of Right has returned 1 on a pad that holds 0xFF and whose record
\* still holds the 27 pin operations of its last poll.
QueryReturnedAfterPoll ==
    /\ JustReturned("pressed", nesPad)
    /\ last.arg = K15_NESPadButton_Right
    /\ last.ret = 1
    /\ pad[nesPad].buttonMask = 255
    /\ pc[nesPad] = "idle"
    /\ Len(trace[nesPad]) = 27

----------------------------------------------------------------------------
(* C11 *)

\* The number of loop iterations the running poll of p has begun: its reads.
Iterations(p) == CountOps(trace[p], "digitalRead")

\* C11: a poll of an initialized pad never begins a ninth iteration and never
\* reads twice in one iteration; at each read either level lets it continue;
\* every statement of a running poll can be executed; when the poll returns it
\* has made exactly 8 iterations and has stored the mask of the levels read;
\* and every poll that is running returns.
PollTerminatesAfterEightIterations ==
    /\ [](\A p \in Pads : inited[p] =>
            /\ Iterations(p) <= NumButtons
            /\ pc[p] # "idle" =>
                  /\ frame[p].buttonIndex <= NumButtons
                  /\ Iterations(p) =
                        IF pc[p] \in {"pulseHigh", "pulseLow", "test"}
                        THEN frame[p].buttonIndex + 1 ELSE frame[p].buttonIndex
            /\ JustReturned("poll", p) =>
                  /\ Iterations(p) = NumButtons
                  /\ pad[p].buttonMask = MaskOf(ReadLevels(trace[p])))
    /\ [](pc[nesPad] # "idle" => ENABLED PollStep)
    /\ [](pc[nesPad] = "read" =>
            \A lvl \in Levels : ENABLED PollRead(nesPad, lvl))
    /\ (pc[nesPad] # "idle") ~> JustReturned("poll", nesPad)

\* A poll on a line stuck HIGH has returned after 8 iterations, replacing the
\* 0xFF of the poll before, on a line stuck LOW, by 0.
PollOfStuckLineReturned ==
    /\ JustReturned("poll", nesPad)
    /\ inited[nesPad]
    /\ ReadLevels(trace[nesPad]) = AllHigh
    /\ Iterations(nesPad) = NumButtons
    /\ last.prior = 255
    /\ pad[nesPad].buttonMask = 0

----------------------------------------------------------------------------
(* C12 *)

\* The kinds of the pin operations of t, in order.
OpKinds(t) == [i \in 1..Len(t) |-> t[i].op]

\* The kinds of the pin operations of one whole poll: two writes, the wait, and
\* 8 times a read followed by two writes.
PollOpKinds ==
    [i \in 1..(3 + 3 * NumButtons) |->
        IF i <= 2 THEN "digitalWrite"
        ELSE IF i = 3 THEN "delayMicroseconds"
        ELSE IF i % 3 = 1 THEN "digitalRead" ELSE "digitalWrite"]

\* C12: the pin operations of a poll of an initialized pad, while it runs and
\* when it has returned, hold a wait at the third place only, of 6 microseconds,
\* directly after the latchPin HIGH and LOW writes, which are adjacent; a
\* completed poll holds exactly one wait, directly followed by the first read of
\* dataPin, and after it only reads each directly followed by the pulsePin HIGH
\* and LOW writes.
PollWaitsOnceAfterLatch ==
    \A p \in Pads :
        (inited[p] /\ (pc[p] # "idle" \/ JustReturned("poll", p))) =>
            LET t == trace[p]
            IN  /\ \A i \in 1..Len(t) :
                       /\ OpKinds(t)[i] = PollOpKinds[i]
                       /\ t[i].op = "delayMicroseconds" =>
                             /\ i = 3
                             /\ t[i].arg = SettleMicros
                             /\ t[1] = WriteOp(pad[p].latchPin, "HIGH")
                             /\ t[2] = WriteOp(pad[p].latchPin, "LOW")
                /\ JustReturned("poll", p) =>
                       /\ OpKinds(t) = PollOpKinds
                       /\ CountOps(t, "delayMicroseconds") = 1
                       /\ t[4].op = "digitalRead" /\ t[4].pin = pad[p].dataPin
                       /\ \A k \in 1..NumButtons :
                              /\ t[3 * k + 2] = WriteOp(pad[p].pulsePin, "HIGH")
                              /\ t[3 * k + 3] = WriteOp(pad[p].pulsePin, "LOW")

\* A poll of an initialized pad has returned after reading HIGH, then LOW seven
\* times; its third operation is the wait.
PollWaitedOnce ==
    /\ JustReturned("poll", nesPad)
    /\ inited[nesPad]
    /\ trace[nesPad][3] = DelayOp(SettleMicros)
    /\ ReadLevels(trace[nesPad]) =
           [i \in 1..NumButtons |-> IF i = 1 THEN "HIGH" ELSE "LOW"]

----------------------------------------------------------------------------
(* C13 *)

\* The pin fields of a pad.
PinFields(p) == <<pad[p].pulsePin, pad[p].dataPin, pad[p].latchPin>>

\* C13: every step other than one in which K15_NESInitPad returns from a call
\* on a pad (the start, each statement and the return of a poll, a query, a
\* call with a null pad) leaves pulsePin, dataPin and latchPin of every pad and
\* the direction of every pin as they were.
PinsChangeOnlyAtInit ==
    [][~(last'.op = "init" /\ last'.ref \in Pads) =>
          /\ \A p \in Pads :
                 /\ pad'[p].pulsePin = pad[p].pulsePin
                 /\ pad'[p].dataPin = pad[p].dataPin
                 /\ pad'[p].latchPin = pad[p].latchPin
          /\ pinDir' = pinDir]_vars

\* A pad initialized with the wiring of the example sketch has been polled with
\* the first four buttons held and then queried: its pins and their directions
\* are those of the initialization.
PinsKeptThroughPollAndQuery ==
    /\ inited[nesPad]
    /\ JustReturned("pressed", nesPad)
    /\ sampled[nesPad].current
    /\ pad[nesPad].buttonMask = 15
    /\ PinFields(nesPad) = <<8, 12, 7>>
    /\ pinDir[8] = "OUTPUT" /\ pinDir[12] = "INPUT" /\ pinDir[7] = "OUTPUT"

----------------------------------------------------------------------------
(* C14 *)

\* The order of the documented protocol: in each iteration the read, then the
\* accumulator bit, then the pulse HIGH and LOW.
AfterSpecified(at, buttonIndex) ==
    CASE at = "latchHigh" -> "latchLow"
      [] at = "latchLow" -> "delay"
      [] at = "delay" -> IF buttonIndex < NumButtons THEN "read" ELSE "store"
      [] at = "read" -> "test"
      [] at = "test" -> "pulseHigh"
      [] at = "pulseHigh" -> "pulseLow"
      [] at = "pulseLow" -> IF buttonIndex < NumButtons THEN "read" ELSE "store"
      [] at = "store" -> "idle"

\* One statement of the documented protocol on a pad with fields r, in state
\* st (position, locals, pin operations so far, the pad's buttonMask), the data
\* line showing levels[k] at the k-th read.
SpecifiedStep(r, st, levels) ==
    LET f == st.frame
        at == st.pc
    IN  CASE at = "latchHigh" ->
               [st EXCEPT !.trace = Append(@, WriteOp(r.latchPin, "HIGH")),
                          !.pc = AfterSpecified(at, 0)]
          [] at = "latchLow" ->
               [st EXCEPT !.trace = Append(@, WriteOp(r.latchPin, "LOW")),
                          !.pc = AfterSpecified(at, 0)]
          [] at = "delay" ->
               [st EXCEPT !.trace = Append(@, DelayOp(SettleMicros)),
                          !.frame.buttonIndex = 0,
                          !.pc = AfterSpecified(at, 0)]
          [] at = "read" ->
               LET lvl == levels[f.buttonIndex + 1]
               IN  [st EXCEPT !.trace = Append(@, ReadOp(r.dataPin, lvl)),
                              !.frame.dataPulse = lvl,
                              !.pc = AfterSpecified(at, f.buttonIndex)]
          [] at = "test" ->
               [st EXCEPT !.frame.buttonMask = Accumulate(f),
                          !.pc = AfterSpecified(at, f.buttonIndex)]
          [] at = "pulseHigh" ->
               [st EXCEPT !.trace = Append(@, WriteOp(r.pulsePin, "HIGH")),
                          !.pc = AfterSpecified(at, f.buttonIndex)]
          [] at = "pulseLow" ->
               [st EXCEPT !.trace = Append(@, WriteOp(r.pulsePin, "LOW")),
                          !.frame.buttonIndex = @ + 1,
                          !.pc = AfterSpecified(at, f.buttonIndex + 1)]
          [] at = "store" ->
               [st EXCEPT !.buttonMask = ToUChar(f.buttonMask),
                          !.pc = AfterSpecified(at, f.buttonIndex)]

RECURSIVE SpecifiedRun(_, _, _)
SpecifiedRun(r, st, levels) ==
    IF st.pc = "idle" THEN st
    ELSE SpecifiedRun(r, SpecifiedStep(r, st, levels), levels)

\* The whole documented poll of a pad with fields r on a line showing levels.
SpecifiedPoll(r, levels) ==
    SpecifiedRun(r, [pc |-> "latchHigh", frame |-> NoFrame, trace |-> <<>>,
                     buttonMask |-> r.buttonMask], levels)

\* C14: when a poll of an initialized pad returns, it has read 8 levels, and
\* its pin operations (writes, reads with their levels, the wait, in order) and
\* the buttonMask it stored are those of the documented protocol, which sets
\* the accumulator bit before the pulse, run on the same pad with the same 8
\* levels.
PollRefinesSpecifiedOrder ==
    \A p \in Pads :
        (inited[p] /\ JustReturned("poll", p)) =>
            /\ Len(ReadLevels(trace[p])) = NumButtons
            /\ LET s == SpecifiedPoll([pad[p] EXCEPT !.buttonMask = last.prior],
                                      ReadLevels(trace[p]))
               IN  /\ s.trace = trace[p]
                   /\ s.buttonMask = pad[p].buttonMask

\* A poll that read LOW, LOW, HIGH, HIGH, LOW, LOW, HIGH, HIGH has returned
\* and stored 0x33.
PollOfMixedLevelsReturned ==
    /\ JustReturned("poll", nesPad)
    /\ inited[nesPad]
    /\ ReadLevels(trace[nesPad]) =
           [i \in 1..NumButtons |-> IF (i - 1) % 4 < 2 THEN "LOW" ELSE "HIGH"]
    /\ pad[nesPad].buttonMask = 51

----------------------------------------------------------------------------
(* C15 *)

\* Some bit position is 1 in both mask and b.
SharesBit(mask, b) ==
    \E i \in 0..(NumButtons - 1) : BitSetIn(mask, i) /\ BitSetIn(b, i)

\* C15: a query of a pad that holds any buttonMask in 0..255, with any button
\* argument in 0..255 (no flag, one flag or several), returns 0 or 1, and
\* returns 1 exactly when some bit is set in both the mask and the argument,
\* that is when (buttonMask & button) is not 0.
QueryReturnsWhetherMaskMeetsButton ==
    \A p \in Pads :
        JustReturned("pressed", p) =>
            /\ last.prior = pad[p].buttonMask
            /\ last.ret \in {0, 1}
            /\ last.ret = 1 <=> SharesBit(pad[p].buttonMask, last.arg)
            /\ last.ret = 1 <=> BitAnd(pad[p].buttonMask, last.arg) # 0
            /\ last.arg = 0 => last.ret = 0

\* A query with A, Select, Up and Left together (0x55) has returned 0 on a pad
\* that holds B, Start, Down and Right (0xAA).
QueryOfSeveralFlagsReturned ==
    /\ JustReturned("pressed", nesPad)
    /\ last.arg = 85
    /\ pad[nesPad].buttonMask = 170
    /\ last.ret = 0

----------------------------------------------------------------------------
(* C16 *)

\* C16 as stated: whatever integers were passed to K15_NESInitPad, every pin a
\* later poll of the pad writes is a pin that K15_NESInitPad configured as
\* OUTPUT and every pin it reads is one configured as INPUT (checked for pads
\* whose three pin fields differ).
PollUsesThePinsInitConfigured ==
    \A p \in Pads :
        (inited[p] /\ DistinctPins(p)) =>
            \A i \in 1..Len(trace[p]) :
                /\ trace[p][i].op = "digitalWrite" =>
                       pinDir[trace[p][i].pin] = "OUTPUT"
                /\ trace[p][i].op = "digitalRead" =>
                       pinDir[trace[p][i].pin] = "INPUT"

----------------------------------------------------------------------------
(* C17 *)

----------------------------------------------------------------------------
(* C18 *)

\* C18: the pin operations of a running or completed poll of an initialized pad
\* whose three pins differ are writes to latchPin and pulsePin, never to
\* dataPin, reads of dataPin, the wait, and no pinMode; and every statement of
\* such a poll leaves the level of every pin other than latchPin and pulsePin,
\* the direction of every pin, and pulsePin, dataPin and latchPin as they were,
\* and changes buttonMask only in the step in which the poll returns.
PollTouchesItsPinsAndMaskOnly ==
    /\ [](\A p \in Pads :
            (inited[p] /\ DistinctPins(p)
               /\ (pc[p] # "idle" \/ JustReturned("poll", p))) =>
                \A i \in 1..Len(trace[p]) :
                    /\ trace[p][i].op # "pinMode"
                    /\ trace[p][i].op = "digitalWrite" =>
                           /\ trace[p][i].pin \in {pad[p].latchPin, pad[p].pulsePin}
                           /\ trace[p][i].pin # pad[p].dataPin
                    /\ trace[p][i].op = "digitalRead" =>
                           trace[p][i].pin = pad[p].dataPin)
    /\ [][\A p \in Pads :
            (inited[p] /\ DistinctPins(p) /\ pc[p] # "idle") =>
                /\ \A n \in PinIds \ {pad[p].latchPin, pad[p].pulsePin} :
                       pinLevel'[n] = pinLevel[n]
                /\ pinDir' = pinDir
                /\ PinFields(p)' = PinFields(p)
                /\ pad'[p].buttonMask # pad[p].buttonMask =>
                       (pc[p] = "store" /\ last'.op = "poll" /\ last'.ref = p)]_vars

\* A poll has returned on a pad initialized with pulse pin 264: it has written
\* pins 7 and 8 only, read pin 12 only, and replaced buttonMask 0 by 0xF0.
PollReturnedHavingTouchedItsPins ==
    /\ JustReturned("poll", nesPad)
    /\ inited[nesPad] /\ DistinctPins(nesPad)
    /\ pinDir[264] = "OUTPUT"
    /\ PinFields(nesPad) = <<8, 12, 7>>
    /\ last.prior = 0
    /\ pad[nesPad].buttonMask = 240

====
